---------------------------- MODULE Spec2Model ----------------------------
(***************************************************************************)
(* Partitioned variational inference (pvi): the asynchronous and the       *)
(* continual-learning server, their clients, and the parameter             *)
(* representation of a one-dimensional mean-field Gaussian posterior.      *)
(*                                                                         *)
(* Tensor values are exact rationals <<numerator, denominator>>.  The      *)
(* tensor "scale" is represented by its square (the variance) and the      *)
(* tensor "log_var" by its exponential (again the variance), so that the   *)
(* square root, exp and log of the conversions are exact.  In the same     *)
(* way every tensor a conversion computes with log (log_alpha, log_probs,  *)
(* up1, ...) is represented by its exponential.  Vectors have two          *)
(* components, matrices are two by two.                                    *)
(*                                                                         *)
(* A tensor that can reach an nn.Parameter without passing through an      *)
(* arithmetic operation ("loc" of the standard and of the unconstrained    *)
(* parameters: detach() and nn.Parameter() share the storage of their      *)
(* argument) is a reference to a storage cell of the variable store; the   *)
(* optimiser updates parameters in place.  Every other tensor is the       *)
(* result of an arithmetic operation, owns fresh storage and is a value.   *)
(***************************************************************************)
EXTENDS Integers, Sequences, FiniteSets, TLC

\* ------------------------------------------------------------- bounds
NumClients == 2
MaxIterations == 2
MaxEpochs == 1
MaxFits == 3
MaxLabOps == 2

Clients == 0..(NumClients - 1)

\* ------------------------------------------------- exact tensor values
Abs(x) == IF x < 0 THEN -x ELSE x

RECURSIVE GCD(_, _)
GCD(a, b) == IF b = 0 THEN a ELSE GCD(b, a % b)

\* the rational n/d in lowest terms with a positive denominator
Rat(n, d) ==
    CHOOSE r \in {LET s == IF dv < 0 THEN -1 ELSE 1
                      g == GCD(Abs(nv), Abs(dv))
                  IN  <<(s * nv) \div g, (s * dv) \div g>> :
                  nv \in {n}, dv \in {d}} : TRUE

\* sums and products cancel common factors before they multiply
RAdd(x, y) ==
    CHOOSE r \in {LET g == GCD(xv[2], yv[2])
                  IN  Rat(xv[1] * (yv[2] \div g) + yv[1] * (xv[2] \div g),
                          (xv[2] \div g) * yv[2]) :
                  xv \in {x}, yv \in {y}} : TRUE

RNeg(x) == <<-x[1], x[2]>>

RSub(x, y) == RAdd(x, RNeg(y))

RMul(x, y) ==
    CHOOSE r \in {<<(xv[1] \div GCD(Abs(xv[1]), yv[2]))
                       * (yv[1] \div GCD(Abs(yv[1]), xv[2])),
                    (xv[2] \div GCD(Abs(yv[1]), xv[2]))
                       * (yv[2] \div GCD(Abs(xv[1]), yv[2]))>> :
                  xv \in {x}, yv \in {y}} : TRUE

RDiv(x, y) == RMul(x, Rat(y[2], y[1]))

Zero == <<0, 1>>
One == <<1, 1>>
MinusHalf == <<-1, 2>>

\* an optional value: None, or the one-element set holding it
None == {}
Some(x) == {x}
The(s) == CHOOSE x \in s : TRUE

\* ------------------------------------ MeanFieldGaussianDistribution
_nat_from_std(std) ==
    [np1 |-> RDiv(std.loc, std.scale), np2 |-> RDiv(MinusHalf, std.scale)]

_std_from_nat(nat) ==
    [loc |-> RDiv(RMul(MinusHalf, nat.np1), nat.np2),
     scale |-> RDiv(MinusHalf, nat.np2)]

\* _unc_from_std keeps the storage of loc (detach, nn.Parameter)
_unc_from_std(stdp) == [loc |-> stdp.loc, log_var |-> stdp.scale]

_std_from_unc(unc) == [loc |-> unc.loc, scale |-> unc.log_var]

\* the values of standard parameters whose loc is a storage cell
Deref(st, stdp) == [loc |-> st[stdp.loc], scale |-> stdp.scale]

\* ------------------------------------- ExponentialFamilyDistribution
\* A distribution object: is_trainable, and the optional _std_params
\* (loc a storage cell), _nat_params (values) and _unc_params (loc a cell).

\* __init__(std_params, nat_params, is_trainable): the object and the store
\* (a trainable object built from natural parameters alone owns a new cell)
Distribution(std, nat, is_trainable, st) ==
    IF is_trainable
    THEN IF std # None
         THEN [d |-> [is_trainable |-> TRUE, std |-> None, nat |-> None,
                      unc |-> Some(_unc_from_std(The(std)))],
               st |-> st]
         ELSE LET sv == _std_from_nat(The(nat))
                  cell == Len(st) + 1
              IN  [d |-> [is_trainable |-> TRUE, std |-> None, nat |-> None,
                          unc |-> Some(_unc_from_std(
                                      [loc |-> cell, scale |-> sv.scale]))],
                   st |-> Append(st, sv.loc)]
    ELSE [d |-> [is_trainable |-> FALSE, std |-> std, nat |-> nat,
                 unc |-> None],
          st |-> st]

\* the std_params property, as values
std_params(d, st) ==
    IF d.is_trainable THEN Deref(st, _std_from_unc(The(d.unc)))
    ELSE IF d.std = None THEN _std_from_nat(The(d.nat))
    ELSE Deref(st, The(d.std))

\* the nat_params property, as values
nat_params(d, st) ==
    IF d.is_trainable \/ d.nat = None
    THEN _nat_from_std(std_params(d, st))
    ELSE The(d.nat)

\* the object after a read of nat_params, which stores what it computed
nat_params_read(d, st) == [d EXCEPT !.nat = Some(nat_params(d, st))]

\* the arguments both copies hand to the constructor: detached tensors,
\* which share the storage of the tensors they are detached from
CopyArgs(d) ==
    IF d.is_trainable
    THEN [std |-> Some(_std_from_unc(The(d.unc))), nat |-> None]
    ELSE [std |-> d.std, nat |-> d.nat]

non_trainable_copy(d, st) ==
    Distribution(CopyArgs(d).std, CopyArgs(d).nat, FALSE, st).d

trainable_copy(d, st) ==
    Distribution(CopyArgs(d).std, CopyArgs(d).nat, TRUE, st)

\* ------------------------------------------- ExponentialFamilyFactor
NatKeys == {"np1", "np2"}

ZeroFactor == [np1 |-> Zero, np2 |-> Zero]

\* a refined factor that leaves out the old posterior
compute_refined_factor_no_old(t, np1, np2) ==
    [name \in DOMAIN t |-> RAdd(np1[name], t[name])]

\* a refined factor with the two posteriors exchanged
compute_refined_factor_swapped(t, np1, np2) ==
    [name \in DOMAIN t |-> RAdd(RSub(np2[name], np1[name]), t[name])]

\* t.compute_refined_factor(q1, q2), on the natural parameters read
compute_refined_factor(t, np1, np2) ==
    [name \in DOMAIN t |-> RAdd(RSub(np1[name], np2[name]), t[name])]

\* ------------------------------------------------ vectors, matrices
\* v + r, component by component
VAddScalar(v, r) == [i \in DOMAIN v |-> RAdd(v[i], r)]

RECURSIVE VSumTo(_, _)
VSumTo(v, n) == IF n = 0 THEN Zero ELSE RAdd(VSumTo(v, n - 1), v[n])

\* v.sum()
VSum(v) == VSumTo(v, Len(v))

\* v / v.sum()
Normalise(v) == [i \in DOMAIN v |-> RDiv(v[i], VSum(v))]

\* the square root of a rational that is a square
Sqrt(x) ==
    <<CHOOSE k \in 0..Abs(x[1]) : k * k = x[1],
      CHOOSE k \in 1..x[2] : k * k = x[2]>>

MatScale(r, M) == [i \in DOMAIN M |-> [j \in DOMAIN M[i] |-> RMul(r, M[i][j])]]

\* M.matmul(v.unsqueeze(-1)).squeeze(-1)
MatVec(M, v) ==
    [i \in DOMAIN M |-> RAdd(RMul(M[i][1], v[1]), RMul(M[i][2], v[2]))]

\* L.matmul(L.transpose(-1, -2))
MatMulTranspose(L) ==
    [i \in DOMAIN L |->
        [j \in DOMAIN L |->
            RAdd(RMul(L[i][1], L[j][1]), RMul(L[i][2], L[j][2]))]]

\* torch.cholesky of a positive definite matrix
cholesky(M) ==
    LET l11 == Sqrt(M[1][1])
        l21 == RDiv(M[2][1], l11)
        l22 == Sqrt(RSub(M[2][2], RMul(l21, l21)))
    IN  <<<<l11, Zero>>, <<l21, l22>>>>

\* the inverse of a positive definite matrix
safe_psd_inverse(M) ==
    LET det == RSub(RMul(M[1][1], M[2][2]), RMul(M[1][2], M[2][1]))
    IN  <<<<RDiv(M[2][2], det), RDiv(RNeg(M[1][2]), det)>>,
          <<RDiv(RNeg(M[2][1]), det), RDiv(M[1][1], det)>>>>

\* ---------------------------------- MultivariateGaussianDistribution
MultivariateGaussian_std_from_unc(unc) ==
    [loc |-> unc.loc, covariance_matrix |-> MatMulTranspose(unc.scale_tril)]

MultivariateGaussian_unc_from_std(stdp) ==
    [loc |-> stdp.loc, scale_tril |-> cholesky(stdp.covariance_matrix)]

MultivariateGaussian_nat_from_std(stdp) ==
    LET prec == safe_psd_inverse(stdp.covariance_matrix)
    IN  [np1 |-> MatVec(prec, stdp.loc), np2 |-> MatScale(MinusHalf, prec)]

MultivariateGaussian_std_from_nat(nat) ==
    LET cov == safe_psd_inverse(MatScale(<<-2, 1>>, nat.np2))
    IN  [loc |-> MatVec(cov, nat.np1), covariance_matrix |-> cov]

\* ---------------------------------------------- DirichletDistribution
Dirichlet_std_from_unc(unc) == [concentration |-> unc.up1]

Dirichlet_unc_from_std(stdp) == [up1 |-> stdp.concentration]

Dirichlet_nat_from_std(stdp) ==
    [np1 |-> VAddScalar(stdp.concentration, <<-1, 1>>)]

Dirichlet_std_from_nat(nat) == [concentration |-> VAddScalar(nat.np1, One)]

\* -------------------------------------------- MultinomialDistribution
Multinomial_std_from_unc(unc) ==
    [total_count |-> unc.up1, probs |-> Normalise(unc.up2)]

Multinomial_nat_from_std(stdp) == [np1 |-> stdp.total_count, np2 |-> stdp.probs]

Multinomial_std_from_nat(nat) ==
    [total_count |-> nat.np1, probs |-> Normalise(nat.np2)]

\* --------------------------------------------------- GammaDistribution
Gamma_std_from_unc(unc) ==
    [concentration |-> unc.log_alpha, rate |-> RDiv(One, unc.log_beta)]

Gamma_unc_from_std(stdp) ==
    [log_alpha |-> stdp.concentration, log_beta |-> RDiv(One, stdp.rate)]

Gamma_nat_from_std(stdp) ==
    [np1 |-> RSub(stdp.concentration, One), np2 |-> RDiv(<<-1, 1>>, stdp.rate)]

Gamma_std_from_nat(nat) ==
    [concentration |-> RAdd(nat.np1, One), rate |-> RDiv(<<-1, 1>>, nat.np2)]

\* --------------------------------------------- CategoricalDistribution
Categorical_std_from_unc(unc) == [probs |-> Normalise(unc.log_probs)]

Categorical_unc_from_std(stdp) == [log_probs |-> stdp.probs]

Categorical_nat_from_std(stdp) == [log_probs |-> stdp.probs]

Categorical_std_from_nat(nat) == [probs |-> nat.log_probs]

\* ---------------------------------------------------- BetaDistribution
Beta_std_from_unc(unc) ==
    [concentration1 |-> unc.log_alpha, concentration0 |-> unc.log_beta]

Beta_unc_from_std(stdp) ==
    [log_alpha |-> stdp.concentration1, log_beta |-> stdp.concentration0]

Beta_nat_from_std(stdp) ==
    [np1 |-> RSub(stdp.concentration1, One),
     np2 |-> RSub(stdp.concentration0, One)]

Beta_std_from_nat(nat) ==
    [concentration1 |-> RAdd(nat.np1, One),
     concentration0 |-> RAdd(nat.np2, <<2, 1>>)]

\* ------------------------------------------------ the families
Families ==
    {"MeanFieldGaussian", "MultivariateGaussian", "Dirichlet", "Categorical",
     "Multinomial", "Gamma", "Beta", "LogNormal"}

\* the staticmethod _nat_from_std of family f (LogNormalDistribution
\* inherits the conversions of MeanFieldGaussianDistribution)
NatFromStd(f, stdp) ==
    CASE f \in {"MeanFieldGaussian", "LogNormal"} -> _nat_from_std(stdp)
      [] f = "MultivariateGaussian" -> MultivariateGaussian_nat_from_std(stdp)
      [] f = "Dirichlet" -> Dirichlet_nat_from_std(stdp)
      [] f = "Categorical" -> Categorical_nat_from_std(stdp)
      [] f = "Multinomial" -> Multinomial_nat_from_std(stdp)
      [] f = "Gamma" -> Gamma_nat_from_std(stdp)
      [] f = "Beta" -> Beta_nat_from_std(stdp)

StdFromNat(f, nat) ==
    CASE f \in {"MeanFieldGaussian", "LogNormal"} -> _std_from_nat(nat)
      [] f = "MultivariateGaussian" -> MultivariateGaussian_std_from_nat(nat)
      [] f = "Dirichlet" -> Dirichlet_std_from_nat(nat)
      [] f = "Categorical" -> Categorical_std_from_nat(nat)
      [] f = "Multinomial" -> Multinomial_std_from_nat(nat)
      [] f = "Gamma" -> Gamma_std_from_nat(nat)
      [] f = "Beta" -> Beta_std_from_nat(nat)

StdFromUnc(f, unc) ==
    CASE f \in {"MeanFieldGaussian", "LogNormal"} -> _std_from_unc(unc)
      [] f = "MultivariateGaussian" -> MultivariateGaussian_std_from_unc(unc)
      [] f = "Dirichlet" -> Dirichlet_std_from_unc(unc)
      [] f = "Categorical" -> Categorical_std_from_unc(unc)
      [] f = "Multinomial" -> Multinomial_std_from_unc(unc)
      [] f = "Gamma" -> Gamma_std_from_unc(unc)
      [] f = "Beta" -> Beta_std_from_unc(unc)

\* nn.ParameterDict(_unc_from_std(std_params)) raises for the Multinomial:
\* its "up1" is nn.Parameter(n, requires_grad=False).int(), an integer
\* tensor and no nn.Parameter
UncRaises(f) == f = "Multinomial"

UncFromStd(f, stdp) ==
    CASE f \in {"MeanFieldGaussian", "LogNormal"} -> _unc_from_std(stdp)
      [] f = "MultivariateGaussian" -> MultivariateGaussian_unc_from_std(stdp)
      [] f = "Dirichlet" -> Dirichlet_unc_from_std(stdp)
      [] f = "Categorical" -> Categorical_unc_from_std(stdp)
      [] f = "Gamma" -> Gamma_unc_from_std(stdp)
      [] f = "Beta" -> Beta_unc_from_std(stdp)

\* valid standard parameters of family f
StdInputs(f) ==
    CASE f \in {"MeanFieldGaussian", "LogNormal"} ->
            {[loc |-> One, scale |-> <<2, 1>>], [loc |-> Zero, scale |-> One]}
      [] f = "MultivariateGaussian" ->
            {[loc |-> <<One, Zero>>,
              covariance_matrix |-> <<<<<<4, 1>>, <<2, 1>>>>,
                                      <<<<2, 1>>, <<2, 1>>>>>>],
             [loc |-> <<Zero, <<1, 2>>>>,
              covariance_matrix |-> <<<<One, Zero>>, <<Zero, One>>>>]}
      [] f = "Dirichlet" ->
            {[concentration |-> <<One, <<2, 1>>>>],
             [concentration |-> <<<<1, 2>>, <<3, 1>>>>]}
      [] f = "Categorical" ->
            {[probs |-> <<<<1, 2>>, <<1, 2>>>>],
             [probs |-> <<<<1, 4>>, <<3, 4>>>>]}
      [] f = "Multinomial" ->
            {[total_count |-> <<3, 1>>, probs |-> <<<<1, 2>>, <<1, 2>>>>],
             [total_count |-> <<2, 1>>, probs |-> <<<<1, 4>>, <<3, 4>>>>]}
      [] f = "Gamma" ->
            {[concentration |-> <<2, 1>>, rate |-> <<1, 2>>],
             [concentration |-> One, rate |-> <<3, 1>>]}
      [] f = "Beta" ->
            {[concentration1 |-> <<2, 1>>, concentration0 |-> <<3, 1>>],
             [concentration1 |-> One, concentration0 |-> One]}

\* the natural parameters of these
NatInputs(f) == {NatFromStd(f, stdp) : stdp \in StdInputs(f)}

\* ------------------------ ExponentialFamilyDistribution, any family
\* A distribution object of family f holds is_trainable and the optional
\* _std_params, _nat_params and _unc_params, all as values.

\* what a call that raised leaves in place of its result
Raised(f) == [family |-> f, raised |-> TRUE]
IsRaised(d) == "raised" \in DOMAIN d

\* the std_params setter; CategoricalDistribution normalises probs first,
\* and so subscripts its argument
EF_set_std_params(d, sp) ==
    IF d.family = "Categorical" /\ sp = None THEN Raised(d.family)
    ELSE LET v == IF d.family = "Categorical"
                  THEN Some([probs |-> Normalise(The(sp).probs)])
                  ELSE sp
         IN  IF d.is_trainable
             THEN IF UncRaises(d.family) THEN Raised(d.family)
                  ELSE [d EXCEPT !.unc = Some(UncFromStd(d.family, The(v)))]
             ELSE [d EXCEPT !.std = v]

\* the nat_params setter; CategoricalDistribution normalises first
EF_set_nat_params(d, np) ==
    IF d.family = "Categorical" /\ np = None THEN Raised(d.family)
    ELSE LET v == IF d.family = "Categorical"
                  THEN Some([log_probs |-> Normalise(The(np).log_probs)])
                  ELSE np
         IN  [d EXCEPT !.nat = v]

\* __init__(std_params, nat_params, is_trainable) of family f
EF_init(f, sp, np, is_trainable) ==
    LET blank == [family |-> f, is_trainable |-> is_trainable,
                  std |-> None, nat |-> None, unc |-> None]
    IN  IF is_trainable
        THEN IF sp # None THEN EF_set_std_params(blank, sp)
             ELSE IF np # None
                  THEN EF_set_std_params(blank, Some(StdFromNat(f, The(np))))
                  ELSE Raised(f)
        ELSE LET d1 == EF_set_std_params(blank, sp)
             IN  IF IsRaised(d1) THEN d1 ELSE EF_set_nat_params(d1, np)

\* the std_params property
EF_std_params(d) ==
    IF d.is_trainable THEN StdFromUnc(d.family, The(d.unc))
    ELSE IF d.std = None THEN StdFromNat(d.family, The(d.nat))
    ELSE The(d.std)

\* the nat_params property
EF_nat_params(d) ==
    IF d.is_trainable \/ d.nat = None
    THEN NatFromStd(d.family, EF_std_params(d))
    ELSE The(d.nat)

\* the object after a read of nat_params, which stores what it computed
EF_nat_params_read(d) == [d EXCEPT !.nat = Some(EF_nat_params(d))]

\* the arguments both copies hand to the constructor
EF_CopyArgs(d) ==
    IF d.is_trainable
    THEN [std |-> Some(StdFromUnc(d.family, The(d.unc))), nat |-> None]
    ELSE [std |-> d.std, nat |-> d.nat]

EF_non_trainable_copy(d) ==
    EF_init(d.family, EF_CopyArgs(d).std, EF_CopyArgs(d).nat, FALSE)

EF_trainable_copy(d) ==
    EF_init(d.family, EF_CopyArgs(d).std, EF_CopyArgs(d).nat, TRUE)

\* ---------------------------------- BNNFactor, IPBNNGaussianPosterior
\* A factor holds one distribution per layer and its inducing locations; an
\* aggregate q holds the prior p and the list ts of factors.
BNNFactor(distributions, inducing_locations) ==
    [distributions |-> distributions,
     inducing_locations |-> inducing_locations]

\* torch.allclose, on exact values
allclose(a, b) == a = b

\* a comparison by inducing locations alone
SameFactorByLocation(ti, t) ==
    allclose(ti.inducing_locations, t.inducing_locations)

\* the test of form_cavity that the factor ti of the aggregate is t
SameFactor(ti, t) ==
    /\ allclose(ti.inducing_locations, t.inducing_locations)
    /\ \A l \in DOMAIN ti.distributions \cap DOMAIN t.distributions :
          /\ allclose(EF_nat_params(ti.distributions[l]).np1,
                      EF_nat_params(t.distributions[l]).np1)
          /\ allclose(EF_nat_params(ti.distributions[l]).np2,
                      EF_nat_params(t.distributions[l]).np2)

\* for k, v in dist.nat_params.items(): dist.nat_params[k] = zeros_like(v).
\* The getter of a distribution that is not trainable returns the stored
\* dictionary, which the assignments fill with zeros.  The getter of a
\* trainable distribution builds a new dictionary at every read: each
\* assignment zeroes one key of a dictionary that the next read replaces,
\* and _nat_params is left holding the last one.
ZeroNatParams(dist) ==
    IF dist.is_trainable
    THEN [dist EXCEPT !.nat = Some([EF_nat_params(dist) EXCEPT !.np2 = Zero])]
    ELSE [dist EXCEPT !.nat = Some([k \in DOMAIN EF_nat_params(dist) |-> Zero])]

\* the factor after the test read the natural parameters of its layers
ReadFactor(ti) ==
    [ti EXCEPT !.distributions =
                   [l \in DOMAIN @ |-> EF_nat_params_read(@[l])]]

\* q.form_cavity(t): the first factor of q.ts that is t has its layers'
\* natural parameters set to zero, in the list q.ts itself; the result is
\* the aggregate over that list and the (Python) index of the factor.  When
\* no factor is t, ValueError is raised; q then records q.ts after the
\* comparisons have read every factor.  (found, the set of matching
\* positions, and i, the first of them, are each computed once.)
form_cavity(agg, t) ==
    CHOOSE out \in
        {IF found = {}
         THEN [raised |-> TRUE, error |-> "ValueError",
               q |-> [p |-> agg.p,
                      ts |-> [j \in DOMAIN agg.ts |-> ReadFactor(agg.ts[j])]]]
         ELSE CHOOSE r \in
                 {[raised |-> FALSE,
                   q |-> [p |-> agg.p,
                          ts |-> [j \in DOMAIN agg.ts |->
                                    IF j < i THEN ReadFactor(agg.ts[j])
                                    ELSE IF j > i THEN agg.ts[j]
                                    ELSE [agg.ts[j] EXCEPT !.distributions =
                                             [l \in DOMAIN @ |->
                                                 ZeroNatParams(@[l])]]]],
                   i |-> i - 1] :
                  i \in {CHOOSE x \in found : \A y \in found : x <= y}} :
                 TRUE :
         found \in {{i \in DOMAIN agg.ts : SameFactor(agg.ts[i], t)}}} : TRUE

\* q.replace_factor(t_old, t_new): q.form_cavity(t_old) gives the aggregate
\* over the list q.ts and the index of t_old; t_new is stored at that index
\* of the list, and the aggregate is returned
replace_factor(agg, t_old, t_new) ==
    CHOOSE out \in {IF r.raised THEN r
                    ELSE [raised |-> FALSE, i |-> r.i,
                          q |-> [r.q EXCEPT !.ts[r.i + 1] = t_new]] :
                    r \in {form_cavity(agg, t_old)}} : TRUE

\* the receiver after form_cavity or replace_factor returned out: its prior,
\* and its list ts, which is the list the returned aggregate holds
ReceiverAfter(out) == [p |-> out.q.p, ts |-> out.q.ts]

\* ------------------------------------------------------------- state
VARIABLES
    server_class,     \* "async": AsynchronousServer, "cl": ContinualLearningServer
    hyperparameters,  \* the server's: max_iterations, damping_factor
    q,                \* server.q, a distribution object
    iterations,       \* server.iterations
    communications,   \* server.communications
    log,              \* server.log: q, communications, clients_updated
    client_idx,       \* ContinualLearningServer.client_idx
    clients,          \* per client: t, _can_update, log["training_curves"]
    model,            \* per client: model.hyperparameters (optimiser, epochs)
    store,            \* tensor storage: cell -> value
    pc,               \* where the running tick() is: "idle", "loop", "fit"
    frame,            \* the locals of the running tick() and fit()
    tick_ret,         \* how the last tick() call ended
    prior,            \* the natural parameters the initial q was built with
    round_fits,       \* the clients fitted so far in the running round
    lab               \* a distribution object or factor operated on directly

vars == <<server_class, hyperparameters, q, iterations, communications, log,
          client_idx, clients, model, store, pc, frame, tick_ret, prior,
          round_fits, lab>>

\* optimiser names: one that torch.optim has, one that it has not
Optimisers == {"Adam", "Adamm"}
ValidOptimisers == {"Adam"}

\* what one epoch of optimiser steps does to the parameters: loc moves by
\* dloc, exp(log_var) is multiplied by fvar; the epochs of one fit, on the
\* same data, move the same way
OptSteps == {[dloc |-> One, fvar |-> <<1, 2>>], [dloc |-> Zero, fvar |-> <<2, 1>>]}

\* damping factors in (0, 1]
DampingFactors == {One, <<1, 2>>}

\* the initial posterior N(1, 2), given by standard or by natural parameters
PriorStd == [loc |-> One, scale |-> <<2, 1>>]
PriorNat == [np1 |-> <<1, 2>>, np2 |-> <<-1, 4>>]

EmptyCurve == [elbo |-> <<>>, kl |-> <<>>, ll |-> <<>>]

NoDist == [is_trainable |-> FALSE, std |-> None, nat |-> None, unc |-> None]

\* the locals while no tick() is running
NoFrame ==
    [i |-> 0, clients_updated |-> 0, client_index |-> 0,
     caller |-> "server", fit_q |-> NoDist,
     t_i_old |-> ZeroFactor, q |-> NoDist, q_old |-> NoDist, epoch |-> 0,
     step |-> [dloc |-> Zero, fvar |-> One], training_curve |-> EmptyCurve]

\* Server.__init__: the state every server starts with
ServerInit ==
    /\ iterations = 0
    /\ communications = 0
    /\ pc = "idle"
    /\ frame = NoFrame
    /\ tick_ret = "none"
    /\ round_fits = <<>>

\* PVIClient.__init__ / ContinualLearningClient.__init__
ClientInit ==
    clients = [c \in Clients |->
                  [t |-> ZeroFactor, can_update |-> TRUE,
                   training_curves |-> <<>>]]

\* the initial q, built by its caller from standard or natural parameters
InitialQ ==
    /\ prior = PriorNat
    /\ \/ /\ store = <<PriorStd.loc>>
          /\ q = Distribution(Some([loc |-> 1, scale |-> PriorStd.scale]),
                              None, FALSE, store).d
       \/ /\ store = <<>>
          /\ q = Distribution(None, Some(PriorNat), FALSE, store).d

\* AsynchronousServer.__init__
AsyncInit ==
    /\ server_class = "async"
    /\ \E m \in 0..MaxIterations, d \in DampingFactors :
          hyperparameters = [max_iterations |-> m, damping_factor |-> d]
    /\ client_idx = 0
    /\ log = [q |-> <<non_trainable_copy(q, store)>>,
              communications |-> <<communications>>,
              clients_updated |-> <<>>]

\* Server.set_hyperparameters: the entries given replace the entries held
set_hyperparameters(held, given) ==
    [k \in DOMAIN held \cup DOMAIN given |->
        IF k \in DOMAIN given THEN given[k] ELSE held[k]]

\* ContinualLearningServer.__init__, for every max_iterations passed to it
CLInit ==
    /\ server_class = "cl"
    /\ \E m \in 0..MaxIterations :
          hyperparameters =
              set_hyperparameters(
                  [max_iterations |-> m, damping_factor |-> One],
                  [max_iterations |-> NumClients])
    /\ client_idx = 0
    /\ log = [q |-> <<non_trainable_copy(q, store)>>,
              communications |-> <<communications>>,
              clients_updated |-> <<>>]

\* no distribution or factor is operated on outside a server run
NoLab == [op |-> "none"]

Init ==
    /\ lab = NoLab
    /\ ServerInit
    /\ ClientInit
    /\ InitialQ
    /\ \E e \in 0..MaxEpochs, o \in Optimisers :
          model = [c \in Clients |-> [optimiser |-> o, epochs |-> e]]
    /\ (AsyncInit \/ CLInit)

\* ------------------------------------------------------------ server
\* should_stop with the comparison against max_iterations itself
should_stop_strict == iterations > hyperparameters.max_iterations

should_stop == iterations > hyperparameters.max_iterations - 1

can_update(c) == clients[c].can_update

\* tick() when should_stop(): return False
TickStopped ==
    /\ pc = "idle"
    /\ should_stop
    /\ tick_ret' = "False"
    /\ UNCHANGED <<lab, server_class, hyperparameters, q, iterations,
                   communications, log, client_idx, clients, model, store,
                   pc, frame, prior, round_fits>>

\* ------------------------------------------------------------ client
\* a server that hands the q of its construction to client.fit
FitArgStale == log.q[1]

\* the q a server hands to client.fit
FitArg == q

\* the fits completed so far, by all clients
RECURSIVE FitsDone(_)
FitsDone(n) ==
    IF n = 0 THEN 0 ELSE FitsDone(n - 1) + Len(clients[n - 1].training_curves)

\* fit(q) up to the creation of the optimiser, for a model whose optimiser
\* torch.optim has: update_q takes the gradient branch with a trainable copy,
\* gradient_based_update clears _can_update and copies the old posterior
FitEnter(c, arg, caller) ==
    LET tc == trainable_copy(arg, store)
    IN  /\ model[c].optimiser \in ValidOptimisers
        /\ FitsDone(NumClients) < MaxFits
        /\ clients' = [clients EXCEPT ![c].can_update = FALSE]
        /\ store' = tc.st
        /\ frame' = [frame EXCEPT !.client_index = c,
                                  !.caller = caller,
                                  !.fit_q = arg,
                                  !.t_i_old = clients[c].t,
                                  !.q = tc.d,
                                  !.q_old = non_trainable_copy(tc.d, tc.st),
                                  !.epoch = 0,
                                  !.training_curve = EmptyCurve]
        /\ pc' = "fit"

\* fit(q) for a model whose optimiser torch.optim has not: getattr raises
\* after _can_update was cleared, and the error leaves tick()
FitRaise(c) ==
    /\ model[c].optimiser \notin ValidOptimisers
    /\ clients' = [clients EXCEPT ![c].can_update = FALSE]
    /\ frame' = [NoFrame EXCEPT !.client_index = c]
    /\ pc' = "idle"
    /\ UNCHANGED store

\* one epoch of the optimisation loop: the optimiser steps update the
\* parameters in place, the epoch's totals are appended to the curve
Epoch ==
    /\ pc = "fit"
    /\ frame.epoch < model[frame.client_index].epochs
    /\ \E s \in OptSteps :
          LET unc == The(frame.q.unc)
          IN  /\ frame.epoch > 0 => s = frame.step
              /\ store' = [store EXCEPT ![unc.loc] = RAdd(@, s.dloc)]
              /\ frame' = [frame EXCEPT
                     !.q.unc = Some([unc EXCEPT !.log_var = RMul(@, s.fvar)]),
                     !.epoch = @ + 1,
                     !.step = s,
                     !.training_curve =
                         [elbo |-> Append(@.elbo, frame.epoch),
                          kl |-> Append(@.kl, frame.epoch),
                          ll |-> Append(@.ll, frame.epoch)]]
    /\ UNCHANGED <<lab, server_class, hyperparameters, q, iterations,
                   communications, log, client_idx, clients, model, pc,
                   tick_ret, prior, round_fits>>

\* PVIClient.gradient_based_update after the loop: the refined factor
RefinedFactor(c) ==
    compute_refined_factor(clients[c].t, nat_params(frame.q, store),
                           nat_params(frame.q_old, store))

\* a fit that rebinds the factor of every client
ClientAfterFitAll(c, t_new) ==
    [j \in Clients |->
        IF j = c
        THEN [t |-> t_new, can_update |-> TRUE,
              training_curves |->
                  Append(clients[j].training_curves, frame.training_curve)]
        ELSE [clients[j] EXCEPT !.t = t_new]]

\* a fit whose log keeps the curve of the last fit only
ClientAfterFitOverwrite(c, t_new) ==
    [clients EXCEPT ![c] =
        [t |-> t_new, can_update |-> TRUE,
         training_curves |-> <<frame.training_curve>>]]

\* the client after fit returned t_new: curve logged, flag set, t rebound
ClientAfterFit(c, t_new) ==
    [clients EXCEPT ![c] =
        [t |-> t_new, can_update |-> TRUE,
         training_curves |-> Append(@.training_curves, frame.training_curve)]]

\* ------------------------------------------------ AsynchronousServer
delta_np(t_i_new, t_i_old) ==
    [np1 |-> RSub(t_i_new.np1, t_i_old.np1),
     np2 |-> RSub(t_i_new.np2, t_i_old.np2)]

\* the update of q without the damping factor
q_new_nps_undamped(qnat, delta, damping) ==
    [np1 |-> RAdd(qnat.np1, delta.np1),
     np2 |-> RAdd(qnat.np2, delta.np2)]

q_new_nps(qnat, delta, damping) ==
    [np1 |-> RAdd(qnat.np1, RMul(delta.np1, damping)),
     np2 |-> RAdd(qnat.np2, RMul(delta.np2, damping))]

AsyncTickEnter ==
    /\ server_class = "async"
    /\ pc = "idle"
    /\ ~should_stop
    /\ pc' = "loop"
    /\ frame' = NoFrame
    /\ tick_ret' = "running"
    /\ round_fits' = <<>>
    /\ UNCHANGED <<lab, server_class, hyperparameters, q, iterations,
                   communications, log, client_idx, clients, model, store,
                   prior>>

\* the loop body is entered: the range is not exhausted, a client can update
InLoopBody ==
    /\ server_class = "async"
    /\ pc = "loop"
    /\ frame.i < NumClients
    /\ \E c \in Clients : can_update(c)

\* a round that ends without advancing the round counter
RoundEndNoCount ==
    /\ q' = nat_params_read(q, store)
    /\ log' = [log EXCEPT !.clients_updated =
                              Append(@, frame.clients_updated)]
    /\ pc' = "idle"
    /\ frame' = NoFrame
    /\ tick_ret' = "None"
    /\ UNCHANGED <<lab, server_class, hyperparameters, iterations,
                   communications, client_idx, clients, model, store, prior,
                   round_fits>>

\* the end of a round: the debug message reads q.nat_params, the round
\* counter advances, the number of clients updated is logged; tick returns
RoundEnd ==
    /\ q' = nat_params_read(q, store)
    /\ iterations' = iterations + 1
    /\ log' = [log EXCEPT !.clients_updated =
                              Append(@, frame.clients_updated)]
    /\ pc' = "idle"
    /\ frame' = NoFrame
    /\ tick_ret' = "None"
    /\ UNCHANGED <<lab, server_class, hyperparameters, communications, client_idx,
                   clients, model, store, prior, round_fits>>

AsyncRoundComplete ==
    /\ server_class = "async"
    /\ pc = "loop"
    /\ frame.i = NumClients
    /\ RoundEnd

\* a round that is left, uncounted and unlogged, when no client is available
AsyncRoundBreakNoCount ==
    /\ server_class = "async"
    /\ pc = "loop"
    /\ frame.i < NumClients
    /\ ~ \E c \in Clients : can_update(c)
    /\ pc' = "idle"
    /\ frame' = NoFrame
    /\ tick_ret' = "None"
    /\ UNCHANGED <<lab, server_class, hyperparameters, q, iterations,
                   communications, log, client_idx, clients, model, store,
                   prior, round_fits>>

AsyncRoundBreak ==
    /\ server_class = "async"
    /\ pc = "loop"
    /\ frame.i < NumClients
    /\ ~ \E c \in Clients : can_update(c)
    /\ RoundEnd

AsyncSkip ==
    /\ InLoopBody
    /\ \E c \in Clients :
          /\ ~can_update(c)
          /\ frame' = [frame EXCEPT !.i = @ + 1, !.client_index = c]
    /\ UNCHANGED <<lab, server_class, hyperparameters, q, iterations,
                   communications, log, client_idx, clients, model, store,
                   pc, tick_ret, prior, round_fits>>

AsyncFitStart ==
    /\ InLoopBody
    /\ \E c \in Clients :
          /\ can_update(c)
          /\ FitEnter(c, FitArg, "server")
          /\ round_fits' = Append(round_fits, c)
    /\ tick_ret' = "running"
    /\ UNCHANGED <<lab, server_class, hyperparameters, q, iterations,
                   communications, log, client_idx, model, prior>>

\* a fit issued, and raising, without the check of can_update()
AsyncFitRaiseUnchecked ==
    /\ InLoopBody
    /\ \E c \in Clients :
          /\ FitRaise(c)
          /\ round_fits' = Append(round_fits, c)
    /\ tick_ret' = "raised"
    /\ UNCHANGED <<lab, server_class, hyperparameters, q, iterations,
                   communications, log, client_idx, model, prior>>

AsyncFitRaise ==
    /\ InLoopBody
    /\ \E c \in Clients :
          /\ can_update(c)
          /\ FitRaise(c)
          /\ round_fits' = Append(round_fits, c)
    /\ tick_ret' = "raised"
    /\ UNCHANGED <<lab, server_class, hyperparameters, q, iterations,
                   communications, log, client_idx, model, prior>>

\* every dictionary lookup of compute_refined_factor (by the factor's keys)
\* and of the server's delta (by q's keys) finds its key
KeysAgree(c) == DOMAIN clients[c].t = DOMAIN nat_params(q, store)

\* fit returns t_i_new; the damped change is folded into a new q at once
AsyncFitReturn ==
    /\ server_class = "async"
    /\ pc = "fit"
    /\ frame.caller = "server"
    /\ KeysAgree(frame.client_index)
    /\ frame.epoch = model[frame.client_index].epochs
    /\ \E c \in {frame.client_index} :
       \E t_i_new \in {RefinedFactor(c)} :
       \E delta \in {delta_np(t_i_new, frame.t_i_old)} :
       \E nps \in {q_new_nps(nat_params(q, store), delta,
                             hyperparameters.damping_factor)} :
       \E qn \in {Distribution(None, Some(nps), FALSE, store).d} :
           /\ clients' = ClientAfterFit(c, t_i_new)
           /\ q' = qn
           /\ communications' = communications + 1
           /\ log' = [log EXCEPT
                  !.q = Append(@, non_trainable_copy(qn, store)),
                  !.communications = Append(@, communications + 1)]
           /\ frame' = [NoFrame EXCEPT
                  !.i = frame.i + 1,
                  !.clients_updated = frame.clients_updated + 1]
    /\ pc' = "loop"
    /\ UNCHANGED <<lab, server_class, hyperparameters, iterations, client_idx,
                   model, store, tick_ret, prior, round_fits>>

\* ------------------------------------------- ContinualLearningServer
CLTick ==
    /\ server_class = "cl"
    /\ pc = "idle"
    /\ ~should_stop

\* a round that ends without moving on to the next client
CLRoundEndSameClient ==
    /\ iterations' = iterations + 1
    /\ client_idx' = client_idx
    /\ pc' = "idle"
    /\ frame' = NoFrame
    /\ tick_ret' = "None"

\* the end of a round of the continual-learning server
CLRoundEnd ==
    /\ iterations' = iterations + 1
    /\ client_idx' = (client_idx + 1) % NumClients
    /\ pc' = "idle"
    /\ frame' = NoFrame
    /\ tick_ret' = "None"

CLSkip ==
    /\ CLTick
    /\ ~can_update(client_idx)
    /\ q' = nat_params_read(q, store)
    /\ CLRoundEnd
    /\ UNCHANGED <<lab, server_class, hyperparameters, communications, log,
                   clients, model, store, prior, round_fits>>

CLFitStart ==
    /\ CLTick
    /\ can_update(client_idx)
    /\ FitEnter(client_idx, FitArg, "server")
    /\ tick_ret' = "running"
    /\ UNCHANGED <<lab, server_class, hyperparameters, q, iterations,
                   communications, log, client_idx, model, prior, round_fits>>

CLFitRaise ==
    /\ CLTick
    /\ can_update(client_idx)
    /\ FitRaise(client_idx)
    /\ tick_ret' = "raised"
    /\ UNCHANGED <<lab, server_class, hyperparameters, q, iterations,
                   communications, log, client_idx, model, prior, round_fits>>

\* a fit whose result is its argument
CLFitResultStale == non_trainable_copy(frame.fit_q, store)

\* ContinualLearningClient.fit returns a frozen copy of the optimised q
CLFitResult == non_trainable_copy(frame.q, store)

\* the returned posterior becomes server.q
CLFitReturn ==
    /\ server_class = "cl"
    /\ pc = "fit"
    /\ frame.caller = "server"
    /\ frame.epoch = model[frame.client_index].epochs
    /\ LET c == frame.client_index
           q_new == CLFitResult
           qs == non_trainable_copy(q_new, store)
       IN  /\ clients' = ClientAfterFit(c, clients[c].t)
           /\ communications' = communications + 1
           /\ log' = [log EXCEPT
                  !.q = Append(@, non_trainable_copy(qs, store)),
                  !.communications = Append(@, communications + 1)]
           /\ q' = nat_params_read(qs, store)
    /\ CLRoundEnd
    /\ UNCHANGED <<lab, server_class, hyperparameters, model, store, prior,
                   round_fits>>

Next ==
    \/ TickStopped
    \/ AsyncTickEnter
    \/ AsyncRoundComplete
    \/ AsyncRoundBreak
    \/ AsyncSkip
    \/ AsyncFitStart
    \/ AsyncFitRaise
    \/ Epoch
    \/ AsyncFitReturn
    \/ CLSkip
    \/ CLFitStart
    \/ CLFitRaise
    \/ CLFitReturn

Spec == Init /\ [][Next]_vars

\* the driver calls tick() again and again, and the single thread that runs
\* a tick always takes its next step
SpecFair == Init /\ [][Next]_vars /\ WF_vars(Next)

\* ------------------------------------------- clients with own models
\* every client is constructed with a model of its own, whose optimiser
\* name torch.optim may or may not have
InitMixed ==
    /\ lab = NoLab
    /\ ServerInit
    /\ ClientInit
    /\ InitialQ
    /\ \E e \in 0..MaxEpochs :
          model \in [Clients -> {[optimiser |-> o, epochs |-> e] :
                                    o \in Optimisers}]
    /\ (AsyncInit \/ CLInit)

SpecMixed == InitMixed /\ [][Next]_vars

\* ------------------------------------------- factors with other keys
\* factors whose key set is, lacks one of, or exceeds the keys of q
FactorShapes ==
    {ZeroFactor, [np1 |-> Zero], [np1 |-> Zero, np2 |-> Zero, np3 |-> Zero]}

\* clients constructed with factors of one of these shapes
ClientInitKeys ==
    \E t \in FactorShapes :
        clients = [c \in Clients |->
                      [t |-> t, can_update |-> TRUE, training_curves |-> <<>>]]

InitKeys ==
    /\ lab = NoLab
    /\ ServerInit
    /\ ClientInitKeys
    /\ InitialQ
    /\ \E e \in 0..MaxEpochs, o \in Optimisers :
          model = [c \in Clients |-> [optimiser |-> o, epochs |-> e]]
    /\ (AsyncInit \/ CLInit)

\* the factor has a key q lacks: compute_refined_factor raises KeyError
\* inside fit, after the curve was logged and before _can_update is set
AsyncFitKeyErrorInFit ==
    /\ server_class = "async"
    /\ pc = "fit"
    /\ frame.caller = "server"
    /\ frame.epoch = model[frame.client_index].epochs
    /\ LET c == frame.client_index
       IN  /\ ~ (DOMAIN clients[c].t \subseteq DOMAIN nat_params(q, store))
           /\ clients' = [clients EXCEPT ![c].training_curves =
                                    Append(@, frame.training_curve)]
           /\ frame' = [NoFrame EXCEPT !.client_index = c]
    /\ pc' = "idle"
    /\ tick_ret' = "raised"
    /\ UNCHANGED <<lab, server_class, hyperparameters, q, iterations,
                   communications, log, client_idx, model, store, prior,
                   round_fits>>

\* a server that folds the change of the keys both sides have into q
AsyncFitKeyErrorPartial ==
    /\ server_class = "async"
    /\ pc = "fit"
    /\ frame.caller = "server"
    /\ frame.epoch = model[frame.client_index].epochs
    /\ LET c == frame.client_index
           t_i_new == RefinedFactor(c)
           qnat == nat_params(q, store)
           nps == [k \in DOMAIN qnat |->
                      IF k \in DOMAIN t_i_new
                      THEN RAdd(qnat[k],
                                RMul(RSub(t_i_new[k], frame.t_i_old[k]),
                                     hyperparameters.damping_factor))
                      ELSE qnat[k]]
           qn == Distribution(None, Some(nps), FALSE, store).d
       IN  /\ DOMAIN clients[c].t \subseteq DOMAIN qnat
           /\ DOMAIN clients[c].t # DOMAIN qnat
           /\ clients' = ClientAfterFit(c, t_i_new)
           /\ q' = qn
           /\ communications' = communications + 1
           /\ log' = [log EXCEPT
                  !.q = Append(@, non_trainable_copy(qn, store)),
                  !.communications = Append(@, communications + 1)]
           /\ frame' = [NoFrame EXCEPT
                  !.i = frame.i + 1,
                  !.clients_updated = frame.clients_updated + 1]
    /\ pc' = "loop"
    /\ UNCHANGED <<lab, server_class, hyperparameters, iterations, client_idx,
                   model, store, tick_ret, prior, round_fits>>

\* the factor lacks a key of q: fit returns the refined factor, then the
\* server's t_i_new.nat_params[k] raises KeyError before q is rebound
AsyncFitKeyErrorInTick ==
    /\ server_class = "async"
    /\ pc = "fit"
    /\ frame.caller = "server"
    /\ frame.epoch = model[frame.client_index].epochs
    /\ LET c == frame.client_index
       IN  /\ DOMAIN clients[c].t \subseteq DOMAIN nat_params(q, store)
           /\ DOMAIN clients[c].t # DOMAIN nat_params(q, store)
           /\ clients' = ClientAfterFit(c, RefinedFactor(c))
           /\ frame' = [NoFrame EXCEPT !.client_index = c]
    /\ q' = nat_params_read(q, store)
    /\ pc' = "idle"
    /\ tick_ret' = "raised"
    /\ UNCHANGED <<lab, server_class, hyperparameters, iterations,
                   communications, log, client_idx, model, store, prior,
                   round_fits>>

NextKeys ==
    \/ Next
    \/ AsyncFitKeyErrorInFit
    \/ AsyncFitKeyErrorInTick

SpecKeys == InitKeys /\ [][NextKeys]_vars

\* ------------------------------------------------------------ driver
\* Model.hyperparameters setter, called between ticks: the optimiser name
\* the clients' models share is replaced by one that torch.optim has
SetHyperparameters ==
    /\ pc = "idle"
    /\ \E o \in ValidOptimisers :
          /\ \A c \in Clients : model[c].optimiser # o
          /\ model' = [c \in Clients |-> [model[c] EXCEPT !.optimiser = o]]
    /\ UNCHANGED <<lab, server_class, hyperparameters, q, iterations,
                   communications, log, client_idx, clients, store, pc,
                   frame, tick_ret, prior, round_fits>>

\* client.fit(server.q) called between ticks on a client whose can_update()
\* is false: fit does not look at _can_update before it starts update_q
DirectFitStart ==
    /\ pc = "idle"
    /\ \E c \in Clients :
          /\ ~can_update(c)
          /\ FitEnter(c, q, "driver")
    /\ UNCHANGED <<lab, server_class, hyperparameters, q, iterations,
                   communications, log, client_idx, model, tick_ret, prior,
                   round_fits>>

\* the directly called fit returns: the client logs its curve, sets its
\* flag and (a PVIClient) rebinds its factor; the server is not involved
DirectFitReturn ==
    /\ pc = "fit"
    /\ frame.caller = "driver"
    /\ frame.epoch = model[frame.client_index].epochs
    /\ LET c == frame.client_index
       IN  clients' = ClientAfterFit(c, IF server_class = "async"
                                          THEN RefinedFactor(c)
                                          ELSE clients[c].t)
    /\ pc' = "idle"
    /\ frame' = NoFrame
    /\ UNCHANGED <<lab, server_class, hyperparameters, q, iterations,
                   communications, log, client_idx, model, store, tick_ret,
                   prior, round_fits>>

NextDriver ==
    \/ Next
    \/ SetHyperparameters
    \/ DirectFitStart
    \/ DirectFitReturn

SpecDriver == Init /\ [][NextDriver]_vars

\* ------------------------------------------------------------ claims
\* the sum of the natural parameter k over the factors of clients 0..n-1
RECURSIVE FactorSum(_, _)
FactorSum(k, n) ==
    IF n = 0 THEN Zero ELSE RAdd(FactorSum(k, n - 1), clients[n - 1].t[k])

\* C1: with damping_factor = 1, q equal to the prior at the start and zero
\* factors, after every client update of the asynchronous server
\* q.nat[k] = prior.nat[k] + the sum of the clients' t.nat[k], for every k.
C1_QIsPriorPlusFactors ==
    (server_class = "async" /\ hyperparameters.damping_factor = One
        /\ pc # "fit")
    => \A k \in NatKeys :
          nat_params(q, store)[k] = RAdd(prior[k], FactorSum(k, NumClients))

\* C1 where the initial q was built from natural parameters
C1_NatBuilt ==
    (log.q[1].std = None) => C1_QIsPriorPlusFactors

\* Python truth value of what tick() returned
Truthy(r) == r = "True"

\* C2: tick() returns a true value when it executed a round, so that
\* `while server.tick()` keeps going, and returns False, without a round,
\* when should_stop() holds.
C2_TickReturnsWhetherRoundRan ==
    [][/\ (iterations' # iterations) => Truthy(tick_ret')
       /\ (tick_ret' = "False" /\ tick_ret # "False") => should_stop]_vars

\* C3: within one round of the asynchronous server no client is selected
\* and fitted more than once.
C3_NoClientFittedTwiceInRound ==
    server_class = "async"
    => \A i, j \in DOMAIN round_fits :
          i # j => round_fits[i] # round_fits[j]

\* C4: can_update() is false exactly while an optimisation of the client is
\* in progress: true on construction, false from the start of
\* gradient_based_update through the epoch loop, true again on return.
C4_BusyOnlyWhileOptimising ==
    \A c \in Clients :
        ~can_update(c) <=> (pc = "fit" /\ frame.client_index = c)

\* C5: a fit that aborts before any optimisation (the optimiser name is not
\* in torch.optim) leaves the client as it was before the call: t unchanged,
\* no training curve appended, can_update() still true.
C5_AbortedFitLeavesClient ==
    [][(tick_ret' = "raised") => (clients' = clients)]_vars

\* C6: after each client update of the asynchronous server, for every key k,
\* q_new.nat[k] = q.nat[k] + damping_factor * (t_new.nat[k] - t_old.nat[k]),
\* t_old the factor read before fit and t_new the factor fit returned.
C6_DampedUpdate ==
    [][(server_class = "async" /\ pc = "fit" /\ pc' = "loop")
       => LET c == frame.client_index
              d == hyperparameters.damping_factor
          IN  \A k \in NatKeys :
                 nat_params(q', store')[k] =
                     RAdd(nat_params(q, store)[k],
                          RMul(d, RSub(clients'[c].t[k], frame.t_i_old[k])))]_vars

\* a damped update (damping_factor 1/2) with a non-zero factor was applied
C6_Witness ==
    /\ server_class = "async"
    /\ hyperparameters.damping_factor = <<1, 2>>
    /\ communications > 0
    /\ pc = "loop"
    /\ \E c \in Clients : clients[c].t # ZeroFactor

\* C7: the q passed to a fit of the asynchronous server is the server's
\* current q, which is the q rebound (and logged) after the preceding update
\* of the round, or the q the previous round left for the round's first fit.
C7_FitGetsLatestQ ==
    [][(server_class = "async" /\ pc = "loop" /\ pc' = "fit")
       => /\ frame'.fit_q = q
          /\ nat_params(frame'.fit_q, store')
                 = nat_params(log.q[Len(log.q)], store)]_vars

\* the second fit of a round is running, after the first one updated q
C7_Witness ==
    /\ server_class = "async"
    /\ pc = "fit"
    /\ frame.i >= 1
    /\ frame.clients_updated >= 1
    /\ nat_params(frame.fit_q, store) # nat_params(log.q[1], store)

\* C8: no round mutates a posterior in place: the snapshots in log['q']
\* (the previous server.q among them) keep the natural parameters they had.
C8_SnapshotsKeepNatParams ==
    [][\A i \in 1..Len(log.q) :
          nat_params(log.q[i], store') = nat_params(log.q[i], store)]_vars

\* C9: should_stop() is true exactly when iterations >= max_iterations, and
\* a tick() that only evaluates it changes no server state.
C9_ShouldStopExact ==
    /\ [](should_stop <=> iterations >= hyperparameters.max_iterations)
    /\ [][(tick_ret' = "False")
           => UNCHANGED <<hyperparameters, q, iterations, communications,
                          log, client_idx, clients, store>>]_vars

\* rounds were counted up to max_iterations and the next tick() stopped
C9_Witness ==
    /\ hyperparameters.max_iterations > 0
    /\ iterations = hyperparameters.max_iterations
    /\ tick_ret = "False"

\* C10: a fit call on a client whose can_update() is false starts no second
\* optimisation.
C10_BusyClientStartsNoFit ==
    [][(pc = "idle" /\ pc' = "fit") => can_update(frame'.client_index)]_vars

\* ------------------------------- distributions and factors, directly
\* the variables of the servers and clients
server_vars ==
    <<server_class, hyperparameters, q, iterations, communications, log,
      client_idx, clients, model, store, pc, frame, tick_ret, prior,
      round_fits>>

\* families whose natural parameters are the scalars np1 and np2
ScalarFamilies == {"MeanFieldGaussian", "LogNormal", "Gamma", "Beta"}

\* factors over np1 and np2
FactorInputs == {ZeroFactor, [np1 |-> One, np2 |-> MinusHalf]}

\* a distribution is constructed from valid standard parameters, from their
\* natural parameters or from both, trainable or not; no server runs
LabInit ==
    /\ ServerInit
    /\ ClientInit
    /\ server_class = "none"
    /\ hyperparameters = [max_iterations |-> 0, damping_factor |-> One]
    /\ q = NoDist
    /\ log = [q |-> <<>>, communications |-> <<>>, clients_updated |-> <<>>]
    /\ client_idx = 0
    /\ model = [c \in Clients |-> [optimiser |-> "Adam", epochs |-> 0]]
    /\ store = <<>>
    /\ prior = PriorNat
    /\ \E f \in Families, is_trainable \in BOOLEAN :
          \E stdp \in StdInputs(f), given \in {"std", "nat", "both"} :
             LET sp == IF given = "nat" THEN None ELSE Some(stdp)
                 np == IF given = "std" THEN None
                       ELSE Some(NatFromStd(f, stdp))
             IN  lab = [op |-> "init", family |-> f, n |-> 0,
                        d |-> EF_init(f, sp, np, is_trainable),
                        ref |-> stdp, out |-> stdp]

\* an operation can be applied to the object
LabReady ==
    /\ lab.op # "none"
    /\ ~IsRaised(lab.d)
    /\ lab.n < MaxLabOps

\* d.nat_params is read
LabReadNat ==
    /\ LabReady
    /\ lab' = [lab EXCEPT !.op = "read_nat", !.n = @ + 1,
                          !.d = EF_nat_params_read(lab.d),
                          !.ref = EF_nat_params(lab.d),
                          !.out = EF_nat_params(lab.d)]
    /\ UNCHANGED server_vars

\* d.nat_params = np, d not trainable
LabAssignNat ==
    /\ LabReady
    /\ ~lab.d.is_trainable
    /\ \E np \in NatInputs(lab.family) :
          lab' = [lab EXCEPT !.op = "set_nat", !.n = @ + 1,
                             !.d = EF_set_nat_params(lab.d, Some(np)),
                             !.ref = np, !.out = np]
    /\ UNCHANGED server_vars

\* d.std_params = stdp, d not trainable
LabAssignStd ==
    /\ LabReady
    /\ ~lab.d.is_trainable
    /\ \E stdp \in StdInputs(lab.family) :
          lab' = [lab EXCEPT !.op = "set_std", !.n = @ + 1,
                             !.d = EF_set_std_params(lab.d, Some(stdp)),
                             !.ref = stdp, !.out = stdp]
    /\ UNCHANGED server_vars

\* _std_from_nat(_nat_from_std(stdp)) is computed
LabRoundTrip ==
    /\ LabReady
    /\ \E stdp \in StdInputs(lab.family) :
          lab' = [lab EXCEPT
                     !.op = "round_trip", !.n = @ + 1,
                     !.ref = stdp,
                     !.out = StdFromNat(lab.family,
                                        NatFromStd(lab.family, stdp))]
    /\ UNCHANGED server_vars

\* the standard parameters of the object a chain of copies started from
CopyRef ==
    IF lab.op \in {"ntc", "tc"} THEN lab.ref ELSE EF_std_params(lab.d)

\* d = d.non_trainable_copy()
LabNonTrainableCopy ==
    /\ LabReady
    /\ lab' = [lab EXCEPT !.op = "ntc", !.n = @ + 1,
                          !.d = EF_non_trainable_copy(lab.d),
                          !.ref = CopyRef, !.out = CopyRef]
    /\ UNCHANGED server_vars

\* d = d.trainable_copy()
LabTrainableCopy ==
    /\ LabReady
    /\ lab' = [lab EXCEPT !.op = "tc", !.n = @ + 1,
                          !.d = EF_trainable_copy(lab.d),
                          !.ref = CopyRef, !.out = CopyRef]
    /\ UNCHANGED server_vars

\* t.compute_refined_factor(d, q2), q2 the object d itself or another one
LabRefine ==
    /\ LabReady
    /\ lab.family \in ScalarFamilies
    /\ \E t \in FactorInputs, stdp \in StdInputs(lab.family),
          same \in BOOLEAN :
          LET q2 == IF same THEN lab.d
                    ELSE EF_init(lab.family, Some(stdp), None, FALSE)
          IN  lab' = [lab EXCEPT
                         !.op = "refine", !.n = @ + 1,
                         !.d = EF_nat_params_read(lab.d),
                         !.ref = [t |-> t, same |-> same,
                                  q1_nat |-> EF_nat_params(lab.d),
                                  q1_std |-> EF_std_params(lab.d),
                                  q2_nat |-> EF_nat_params(q2)],
                         !.out = compute_refined_factor(
                                     t, EF_nat_params(lab.d),
                                     EF_nat_params(q2))]
    /\ UNCHANGED server_vars

\* the aggregate of a prior and two factors, one of them with the object
\* as its layer distribution, at position pos of the list
LabAggregate(pos) ==
    LET mine == BNNFactor(<<lab.d>>, <<2, 1>>)
        other == BNNFactor(
                     <<EF_init("MeanFieldGaussian", None,
                               Some([np1 |-> <<3, 1>>, np2 |-> <<-1, 1>>]),
                               FALSE)>>,
                     One)
        p == <<EF_init("MeanFieldGaussian", Some(PriorStd), None, FALSE)>>
    IN  [p |-> p,
         ts |-> IF pos = 1 THEN <<mine, other>> ELSE <<other, mine>>]

\* q.form_cavity(t), t the factor of q that holds the object
LabFormCavity ==
    /\ LabReady
    /\ lab.family = "MeanFieldGaussian"
    /\ \E pos \in 1..2 :
       \E agg \in {LabAggregate(pos)} :
       \E t \in {agg.ts[pos]} :
       \E out \in {form_cavity(agg, t)} :
          lab' = [lab EXCEPT
                     !.op = "form_cavity", !.n = @ + 1,
                     !.ref = [agg |-> agg, pos |-> pos],
                     !.out = out]
    /\ UNCHANGED server_vars

\* ------------------------------------------------ update_q, directly
\* the models a client is paired with: the two logistic regression models
\* declare conjugate_family = None and raise in conjugate_update; a conjugate
\* model declares the class of one family and updates in closed form
LogisticModels == {"LogisticRegressionModel", "MulticlassLogisticRegressionModel"}

ConjugateModel(f) == [class |-> "ConjugateModel", conjugate_family |-> f]

LogisticModel(name) == [class |-> name, conjugate_family |-> "None"]

\* str(type(q)) and str(model.conjugate_family): the name of the class, or
\* "None"
TypeStr(d) == d.family
ConjugateFamilyStr(mdl) == mdl.conjugate_family

\* the client classes with an update_q that branches
BranchingClients == {"PVIClient", "ContinualLearningClient"}

\* the test of update_q
IsConjugate(mdl, d) == TypeStr(d) = ConjugateFamilyStr(mdl)

\* model.conjugate_update(data, q, t)
conjugate_update(mdl, d) ==
    IF mdl.class \in LogisticModels
    THEN [raised |-> TRUE, error |-> "NotImplementedError"]
    ELSE [raised |-> FALSE]

\* the training curve of a fit of e epochs: one total per epoch and key
TrainingCurve(e) ==
    [elbo |-> [i \in 1..e |-> i - 1], kl |-> [i \in 1..e |-> i - 1],
     ll |-> [i \in 1..e |-> i - 1]]

\* gradient_based_update(q) of PVIClient and ContinualLearningClient, q a
\* trainable copy, with a model of e epochs and an optimiser torch.optim
\* has: _can_update is cleared, the old posterior is copied (which raises
\* where the copy does), every epoch steps the optimiser and appends its
\* totals, the curve is logged and _can_update is set
gradient_based_update(tc, e) ==
    IF IsRaised(EF_non_trainable_copy(tc))
    THEN [raised |-> TRUE, optimiser_steps |-> 0, can_update |-> FALSE,
          training_curves |-> <<>>]
    ELSE [raised |-> FALSE, optimiser_steps |-> e, can_update |-> TRUE,
          training_curves |-> <<TrainingCurve(e)>>]

\* client.update_q(q) of a client whose _can_update is True and whose log is
\* empty, with a model of e epochs: what ran, and the client afterwards
update_q(cls, mdl, d, e) ==
    IF IsConjugate(mdl, d)
    THEN [branch |-> "conjugate", raised |-> conjugate_update(mdl, d).raised,
          conjugate_update_calls |-> 1, gradient_based_update_calls |-> 0,
          arg |-> d, optimiser_steps |-> 0, can_update |-> TRUE,
          training_curves |-> <<>>]
    ELSE LET tc == EF_trainable_copy(d)
         IN  IF IsRaised(tc)
             THEN [branch |-> "gradient", raised |-> TRUE,
                   conjugate_update_calls |-> 0,
                   gradient_based_update_calls |-> 0,
                   arg |-> tc, optimiser_steps |-> 0, can_update |-> TRUE,
                   training_curves |-> <<>>]
             ELSE LET r == gradient_based_update(tc, e)
                  IN  [branch |-> "gradient", raised |-> r.raised,
                       conjugate_update_calls |-> 0,
                       gradient_based_update_calls |-> 1,
                       arg |-> tc, optimiser_steps |-> r.optimiser_steps,
                       can_update |-> r.can_update,
                       training_curves |-> r.training_curves]

\* client.update_q(d) for a client of either class and a model that declares
\* no conjugate family, the family of d, or another family
LabUpdateQ ==
    /\ LabReady
    /\ \E cls \in BranchingClients, e \in 0..MaxEpochs,
          mdl \in {LogisticModel(name) : name \in LogisticModels}
                  \cup {ConjugateModel(lab.family),
                        ConjugateModel("MeanFieldGaussian")} :
          lab' = [lab EXCEPT
                     !.op = "update_q", !.n = @ + 1,
                     !.ref = [class |-> cls, model |-> mdl, epochs |-> e,
                              std |-> EF_std_params(lab.d)],
                     !.out = update_q(cls, mdl, lab.d, e)]
    /\ UNCHANGED server_vars

\* BayesianContinualLearningClient.gradient_based_update(q, qeps): after the
\* copies it builds list(q.parameters) + list(qeps.parameters); parameters
\* is a method of every distribution class, and list() of a method raises
\* TypeError, before the training curve is created
BCL_gradient_based_update(tq, tqeps, e) ==
    [raised |-> TRUE, optimiser_steps |-> 0, can_update |-> FALSE,
     training_curves |-> <<>>]

\* BayesianContinualLearningClient.fit(d, qeps), qeps of the family of d
LabBCLFit ==
    /\ LabReady
    /\ \E e \in 0..MaxEpochs, stdp \in StdInputs(lab.family) :
          LET qeps == EF_init(lab.family, Some(stdp), None, TRUE)
              tq == EF_trainable_copy(lab.d)
          IN  /\ ~IsRaised(qeps)
              /\ ~IsRaised(tq)
              /\ ~IsRaised(EF_non_trainable_copy(tq))
              /\ lab' = [lab EXCEPT
                            !.op = "bcl_fit", !.n = @ + 1,
                            !.ref = [epochs |-> e, qeps |-> qeps],
                            !.out = BCL_gradient_based_update(tq, qeps, e)]
    /\ UNCHANGED server_vars

\* factors that are no factor of LabAggregate(pos): other inducing
\* locations, other natural parameters, or both
MissingFactors ==
    LET far == EF_init("MeanFieldGaussian", None,
                       Some([np1 |-> <<7, 1>>, np2 |-> <<-3, 1>>]), FALSE)
    IN  {BNNFactor(<<lab.d>>, <<5, 1>>), BNNFactor(<<far>>, <<2, 1>>),
         BNNFactor(<<far>>, One), BNNFactor(<<far>>, <<5, 1>>)}

\* q.form_cavity(t), t no factor of q
LabFormCavityMissing ==
    /\ LabReady
    /\ lab.family = "MeanFieldGaussian"
    /\ \E pos \in 1..2, t \in MissingFactors :
       \E agg \in {LabAggregate(pos)} :
       \E out \in {form_cavity(agg, t)} :
          lab' = [lab EXCEPT
                     !.op = "form_cavity_missing", !.n = @ + 1,
                     !.ref = [agg |-> agg, pos |-> pos, t |-> t],
                     !.out = out]
    /\ UNCHANGED server_vars

\* --------------------------------------------------- the batch loss
\* dataset sizes, batch sizes (the last batch of an epoch may be smaller)
\* and the values of the three terms for one batch
LocalSizes == {<<2, 1>>, <<4, 1>>}
BatchSizes == {One, <<2, 1>>}
KLValues == {Zero, <<3, 1>>}
LLValues == {<<-2, 1>>, <<-1, 2>>}
EqlogtValues == {<<-1, 1>>, Zero, <<2, 1>>}

\* the loss without the term of the old factor
loss_without_correction(kl_sum, ll_sum, eqlogt, len_x, len_x_batch) ==
    RSub(RDiv(kl_sum, len_x), RDiv(ll_sum, len_x_batch))

\* PVIClient.gradient_based_update, one batch: kl = KL(q || q_old).sum() /
\* len(x); ll = log-likelihood of the batch / len(x_batch); ll = ll -
\* t.eqlogt(q) / len(x); loss = kl - ll
loss(kl_sum, ll_sum, eqlogt, len_x, len_x_batch) ==
    LET kl == RDiv(kl_sum, len_x)
        ll0 == RDiv(ll_sum, len_x_batch)
        ll == RSub(ll0, RDiv(eqlogt, len_x))
    IN  RSub(kl, ll)

\* the loss of one batch of a fit of a PVIClient on the trainable q
LabLoss ==
    /\ LabReady
    /\ lab.family = "MeanFieldGaussian"
    /\ lab.d.is_trainable
    /\ \E len_x \in LocalSizes, len_x_batch \in BatchSizes,
          kl_sum \in KLValues, ll_sum \in LLValues, eqlogt \in EqlogtValues :
          /\ len_x_batch[1] <= len_x[1]
          /\ lab' = [lab EXCEPT
                        !.op = "loss", !.n = @ + 1,
                        !.ref = [kl |-> kl_sum, ll |-> ll_sum,
                                 eqlogt |-> eqlogt, len_x |-> len_x,
                                 len_x_batch |-> len_x_batch],
                        !.out = loss(kl_sum, ll_sum, eqlogt, len_x,
                                     len_x_batch)]
    /\ UNCHANGED server_vars

\* q.replace_factor(t_old, t_new), t_old the factor of q that holds the
\* object, t_new a refined factor at the same inducing locations
LabReplaceFactor ==
    /\ LabReady
    /\ lab.family = "MeanFieldGaussian"
    /\ \E pos \in 1..2 :
       \E agg \in {LabAggregate(pos)} :
       \E t_new \in {BNNFactor(
                         <<EF_init("MeanFieldGaussian", None,
                                   Some([np1 |-> <<7, 1>>,
                                         np2 |-> <<-3, 1>>]), FALSE)>>,
                         agg.ts[pos].inducing_locations)} :
       \E t_old \in {agg.ts[pos]} :
       \E out \in {replace_factor(agg, t_old, t_new)} :
          lab' = [lab EXCEPT
                     !.op = "replace_factor", !.n = @ + 1,
                     !.ref = [agg |-> agg, pos |-> pos, t_new |-> t_new],
                     !.out = out]
    /\ UNCHANGED server_vars

NextLab ==
    \/ LabReplaceFactor
    \/ LabLoss
    \/ LabFormCavityMissing
    \/ LabBCLFit
    \/ LabUpdateQ
    \/ LabFormCavity
    \/ LabReadNat
    \/ LabAssignNat
    \/ LabAssignStd
    \/ LabRoundTrip
    \/ LabNonTrainableCopy
    \/ LabTrainableCopy
    \/ LabRefine

SpecLab == LabInit /\ [][NextLab]_vars

\* C11: for a distribution that is not trainable, after d.nat_params = n a
\* read of d.std_params equals _std_from_nat(n), and after d.std_params = s
\* a read of d.nat_params equals _nat_from_std(s), whatever was set or
\* cached before.
C11_AssignmentInvalidatesCache ==
    /\ (lab.op = "set_nat" /\ ~IsRaised(lab.d))
       => EF_std_params(lab.d) = StdFromNat(lab.family, lab.ref)
    /\ (lab.op = "set_std" /\ ~IsRaised(lab.d))
       => EF_nat_params(lab.d) = NatFromStd(lab.family, lab.ref)

\* C12: for every family, _std_from_nat(_nat_from_std(s)) = s for every
\* valid standard parameter set s.
C12_StdNatStdRoundTrip ==
    lab.op = "round_trip" => lab.out = lab.ref

\* C13: t_old.compute_refined_factor(q_new, q_old) returns a factor with
\* the keys of t_old and the values q_new.nat[k] - q_old.nat[k] + t_old.nat[k];
\* q_new keeps its parameters; compute_refined_factor(q, q) equals t_old.
C13_RefinedFactor ==
    lab.op = "refine"
    => /\ DOMAIN lab.out = DOMAIN lab.ref.t
       /\ \A k \in DOMAIN lab.ref.t :
             lab.out[k] = RSub(RAdd(lab.ref.q1_nat[k], lab.ref.t[k]),
                               lab.ref.q2_nat[k])
       /\ lab.ref.same => lab.out = lab.ref.t
       /\ EF_nat_params(lab.d) = lab.ref.q1_nat
       /\ EF_std_params(lab.d) = lab.ref.q1_std

\* a non-zero factor was refined by two different posteriors
C13_Witness ==
    /\ lab.op = "refine"
    /\ lab.ref.t # ZeroFactor
    /\ lab.ref.q1_nat # lab.ref.q2_nat
    /\ lab.out # lab.ref.t

\* C17: form_cavity(t), t a factor of the aggregate, returns the cavity and
\* the index i of the factor: the cavity's factor i has every natural
\* parameter zero and keeps its inducing locations, the prior and the other
\* factors are those of the aggregate; for trainable and for non-trainable
\* layer distributions of the factor.
C17_CavityZeroesFactor ==
    lab.op = "form_cavity"
    => LET agg == lab.ref.agg
           pos == lab.ref.pos
       IN  /\ ~lab.out.raised
           /\ lab.out.i = pos - 1
           /\ \A l \in DOMAIN lab.out.q.ts[pos].distributions :
                 \A k \in NatKeys :
                    EF_nat_params(lab.out.q.ts[pos].distributions[l])[k] = Zero
           /\ lab.out.q.ts[pos].inducing_locations
                 = agg.ts[pos].inducing_locations
           /\ \A l \in DOMAIN agg.p :
                 EF_nat_params(lab.out.q.p[l]) = EF_nat_params(agg.p[l])
           /\ \A j \in DOMAIN agg.ts \ {pos} :
                 /\ lab.out.q.ts[j].inducing_locations
                       = agg.ts[j].inducing_locations
                 /\ \A l \in DOMAIN agg.ts[j].distributions :
                       EF_nat_params(lab.out.q.ts[j].distributions[l])
                          = EF_nat_params(agg.ts[j].distributions[l])

\* C18: for every family, non_trainable_copy() applied once or twice, and
\* trainable_copy() followed by non_trainable_copy(), complete without an
\* error and yield the standard parameters of the original.
C18_CopiesKeepStdParams ==
    lab.op \in {"ntc", "tc"}
    => /\ ~IsRaised(lab.d)
       /\ EF_std_params(lab.d) = lab.ref

\* C14: with epochs = 0 for every client, after any number of rounds of the
\* asynchronous server q's natural parameters equal the prior's and every
\* client's factor is its initial zero factor.
C14_ZeroEpochsChangeNothing ==
    (server_class = "async" /\ \A c \in Clients : model[c].epochs = 0)
    => /\ nat_params(q, store) = prior
       /\ \A c \in Clients : clients[c].t = ZeroFactor

\* with epochs = 0 two fits returned and a round was completed
C14_Witness ==
    /\ server_class = "async"
    /\ \A c \in Clients : model[c].epochs = 0
    /\ communications >= 2
    /\ iterations >= 1

\* C15: when tick() of the asynchronous server finds no client available,
\* the round ends without an error: q, communications, log['q'] and
\* log['communications'] stay as they are, the number of clients updated so
\* far is appended to log['clients_updated'], and iterations grows by one.
C15_EarlyRoundEnd ==
    [][(server_class = "async" /\ pc = "loop" /\ frame.i < NumClients
            /\ ~ \E c \in Clients : can_update(c))
       => /\ pc' = "idle"
          /\ tick_ret' # "raised"
          /\ nat_params(q', store') = nat_params(q, store)
          /\ std_params(q', store') = std_params(q, store)
          /\ communications' = communications
          /\ log'.q = log.q
          /\ log'.communications = log.communications
          /\ log'.clients_updated =
                 Append(log.clients_updated, frame.clients_updated)
          /\ iterations' = iterations + 1]_vars

\* a round that began with no client available was ended and counted
C15_Witness ==
    /\ server_class = "async"
    /\ pc = "idle"
    /\ tick_ret = "None"
    /\ \A c \in Clients : ~can_update(c)
    /\ iterations >= 1
    /\ log.clients_updated[Len(log.clients_updated)] = 0

\* C19: in tick() of the continual-learning server, when the client is
\* available, the posterior fit returned becomes server.q as it is, the
\* communications counter grows by one, and one q snapshot and one
\* communications value are appended to the log.
C19_ReturnedPosteriorBecomesQ ==
    [][(server_class = "cl" /\ pc = "fit" /\ pc' = "idle")
       => /\ nat_params(q', store') = nat_params(frame.q, store)
          /\ std_params(q', store') = std_params(frame.q, store)
          /\ communications' = communications + 1
          /\ Len(log'.q) = Len(log.q) + 1
          /\ \A i \in 1..Len(log.q) : log'.q[i] = log.q[i]
          /\ nat_params(log'.q[Len(log'.q)], store') = nat_params(q', store')
          /\ log'.communications =
                 Append(log.communications, communications + 1)]_vars

\* the continual-learning server took over an optimised posterior
C19_Witness ==
    /\ server_class = "cl"
    /\ pc = "idle"
    /\ communications >= 1
    /\ nat_params(q, store) # prior

\* C20: an update of client i in a round of the asynchronous server changes
\* the factor of client i only, to the factor its fit returned; the factor
\* of every other client stays as it is.
C20_OnlyOwnFactorChanges ==
    [][server_class = "async"
       => \A j \in Clients :
             (clients'[j].t # clients[j].t)
             => /\ pc = "fit"
                /\ frame.client_index = j
                /\ clients'[j].t = RefinedFactor(j)]_vars

\* one client's factor was refined while the other's is the initial one
C20_Witness ==
    /\ server_class = "async"
    /\ communications >= 1
    /\ \E i, j \in Clients :
          /\ clients[i].t # ZeroFactor
          /\ Len(clients[i].training_curves) >= 1
          /\ clients[j].t = ZeroFactor
          /\ Len(clients[j].training_curves) = 0

\* C16: when the key set of a client's factor differs from the key set of
\* q's natural parameters, tick() of the asynchronous server fails with an
\* error when that client is updated; q is not rebound, nothing is logged.
C16_KeyMismatchIsFatal ==
    [][(server_class = "async" /\ pc = "fit" /\ pc' # "fit"
            /\ DOMAIN clients[frame.client_index].t
                   # DOMAIN nat_params(q, store))
       => /\ tick_ret' = "raised"
          /\ pc' = "idle"
          /\ nat_params(q', store') = nat_params(q, store)
          /\ std_params(q', store') = std_params(q, store)
          /\ communications' = communications
          /\ iterations' = iterations
          /\ log' = log]_vars

\* a factor without the key np2 was refined and the server's lookup failed
C16_Witness ==
    /\ server_class = "async"
    /\ tick_ret = "raised"
    /\ \E c \in Clients :
          /\ "np2" \notin DOMAIN clients[c].t
          /\ Len(clients[c].training_curves) >= 1
          /\ can_update(c)
          /\ clients[c].t # [np1 |-> Zero]


\* C21: update_q takes the closed-form branch exactly when the family the
\* model declares conjugate is the family of q, and otherwise runs
\* gradient_based_update on a trainable copy of q; in the closed-form branch
\* no optimiser step runs, can_update stays true and no training curve is
\* appended; a model that declares no conjugate family never has its
\* conjugate_update called.
C21_BranchSelection ==
    lab.op = "update_q"
    => LET mdl == lab.ref.model
           out == lab.out
       IN  /\ (out.branch = "conjugate") <=> (mdl.conjugate_family = lab.family)
           /\ out.branch = "gradient"
              => /\ out.gradient_based_update_calls = 1
                 /\ out.conjugate_update_calls = 0
                 /\ ~IsRaised(out.arg)
                 /\ out.arg.is_trainable
                 /\ EF_std_params(out.arg) = lab.ref.std
           /\ out.branch = "conjugate"
              => /\ out.optimiser_steps = 0
                 /\ out.gradient_based_update_calls = 0
                 /\ out.can_update
                 /\ out.training_curves = <<>>
           /\ mdl.conjugate_family = "None"
              => out.conjugate_update_calls = 0

\* C22: a client's log['training_curves'] only grows at its end: every fit
\* that returns normally appends exactly one entry, whose 'elbo', 'kl' and
\* 'll' sequences each have as many elements as the model has epochs, and
\* the entries of earlier fits stay as they are.
C22_LogAppendOnly ==
    [][\A c \in Clients :
          LET old == clients[c].training_curves
              new == clients'[c].training_curves
          IN  /\ \/ new = old
                 \/ /\ Len(new) = Len(old) + 1
                    /\ \A i \in 1..Len(old) : new[i] = old[i]
                    /\ pc = "fit"
                    /\ frame.client_index = c
                    /\ DOMAIN new[Len(new)] = {"elbo", "kl", "ll"}
                    /\ \A k \in {"elbo", "kl", "ll"} :
                          Len(new[Len(new)][k]) = model[c].epochs
              /\ (pc = "fit" /\ pc' # "fit" /\ frame.client_index = c
                     /\ clients'[c].can_update)
                 => Len(new) = Len(old) + 1]_vars

\* one client logged the curves of two fits of one epoch each
C22_Witness ==
    \E c \in Clients :
        /\ model[c].epochs = 1
        /\ Len(clients[c].training_curves) = 2
        /\ \A i \in 1..2 : Len(clients[c].training_curves[i].elbo) = 1
        /\ can_update(c)

C24_LossAsStated ==
    lab.op = "loss"
    => LET r == lab.ref
       IN  lab.out =
              RSub(RSub(RDiv(r.kl, r.len_x),
                        RMul(RDiv(r.len_x, r.len_x_batch), r.ll)),
                   RDiv(r.eqlogt, r.len_x))

\* C24, amended: the loss of a batch is KL(q||q_old)/N_local
\* - (1/N_batch) * (log-likelihood of the batch)
\* + (1/N_local) * E_q[log t_old]: the term of the old factor is subtracted
\* from the log-likelihood term and so added to the loss.
C24_LossAsComputed ==
    lab.op = "loss"
    => LET r == lab.ref
       IN  lab.out =
              RAdd(RSub(RDiv(r.kl, r.len_x), RDiv(r.ll, r.len_x_batch)),
                   RDiv(r.eqlogt, r.len_x))

\* a loss with a non-zero term of the old factor, on a batch that is a part
\* of the local data
C24_Witness ==
    /\ lab.op = "loss"
    /\ lab.ref.eqlogt # Zero
    /\ lab.ref.kl # Zero
    /\ lab.ref.len_x # lab.ref.len_x_batch
    /\ lab.out = <<9, 4>>

\* C25: for every damping factor d, after every client update of the
\* asynchronous server q.nat[k] = q0.nat[k] + d * (the sum over the clients
\* of t_i.nat[k] - t_i_initial.nat[k]) for every key k, the initial factors
\* being zero.
C25_DampedSum ==
    (server_class = "async" /\ pc # "fit")
    => \A k \in NatKeys :
          nat_params(q, store)[k] =
             RAdd(prior[k], RMul(hyperparameters.damping_factor,
                                 FactorSum(k, NumClients)))

\* the same for an initial q constructed from natural parameters
C25_DampedSumFromNat ==
    log.q[1].std = None => C25_DampedSum

\* C26: replace_factor(t_old, t_new) and form_cavity(t) leave their inputs
\* as they were: after the call the receiver's list of factors holds, at
\* the place of t_old, a factor with the inducing locations and the natural
\* parameters t_old had, and the factor that was passed (a factor of the
\* list itself) has those natural parameters too.
C26_InputsUnchanged ==
    (lab.op \in {"form_cavity", "replace_factor"} /\ ~lab.out.raised)
    => LET agg == lab.ref.agg
           pos == lab.ref.pos
           after == ReceiverAfter(lab.out)
       IN  /\ after.ts[pos].inducing_locations
                 = agg.ts[pos].inducing_locations
           /\ \A l \in DOMAIN agg.ts[pos].distributions :
                 EF_nat_params(after.ts[pos].distributions[l])
                    = EF_nat_params(agg.ts[pos].distributions[l])

\* the fits of the model are used up
Capped == FitsDone(NumClients) >= MaxFits

\* C27: with max_iterations = M, repeated tick() calls of the asynchronous
\* server run exactly M rounds: iterations grows by one per round and never
\* exceeds M, a round has at most len(clients) fits, eventually should_stop()
\* holds, it then holds forever, and every further tick() returns False and
\* leaves q, iterations, communications and the log as they are.
C27_Termination ==
    /\ [](server_class = "async"
          => /\ iterations <= hyperparameters.max_iterations
             /\ Len(log.clients_updated) = iterations
             /\ Len(round_fits) <= NumClients
             /\ frame.clients_updated <= NumClients)
    /\ [][server_class = "async"
          => /\ iterations' \in {iterations, iterations + 1}
             /\ (pc = "loop" /\ pc' = "idle" /\ tick_ret' = "None")
                => iterations' = iterations + 1
             /\ should_stop => should_stop'
             /\ (pc = "idle" /\ should_stop)
                => /\ tick_ret' = "False"
                   /\ UNCHANGED <<q, iterations, communications, log,
                                  clients, store, pc>>]_vars
    /\ (server_class = "async") => <>(should_stop \/ Capped)

\* a run of one round without an error came to its end: both clients were
\* fitted, and the next tick() returned False
C27_Witness ==
    /\ server_class = "async"
    /\ hyperparameters.max_iterations = 1
    /\ iterations = 1
    /\ should_stop
    /\ tick_ret = "False"
    /\ communications = NumClients
    /\ \A c \in Clients : can_update(c)

\* C28: the continual-learning server runs with max_iterations =
\* len(clients) whatever was passed to it; before every tick() client_idx is
\* iterations mod len(clients), and the fit of a round is the fit of that
\* client; a round advances iterations by one and client_idx to the next
\* index and touches no other client; a round whose client reports
\* unavailable leaves the values of q, communications, the log and every
\* client as they are and still advances both counters; the run stops after
\* len(clients) rounds, and a run without an error has then fitted every
\* client exactly once.
C28_RoundRobin ==
    /\ [](server_class = "cl"
          => /\ hyperparameters.max_iterations = NumClients
             /\ pc \in {"idle", "fit"}
             /\ client_idx = iterations % NumClients
             /\ (pc = "fit" => frame.client_index = client_idx)
             /\ (should_stop => iterations = NumClients)
             /\ (should_stop /\ \A c \in Clients : can_update(c))
                => /\ communications = NumClients
                   /\ \A c \in Clients :
                         Len(clients[c].training_curves) = 1)
    /\ [][server_class = "cl"
          => /\ iterations' # iterations
                => /\ iterations' = iterations + 1
                   /\ client_idx' = (client_idx + 1) % NumClients
             /\ iterations' = iterations => client_idx' = client_idx
             /\ \A c \in Clients \ {client_idx} : clients'[c] = clients[c]
             /\ (CLTick /\ ~can_update(client_idx))
                => /\ iterations' = iterations + 1
                   /\ client_idx' = (client_idx + 1) % NumClients
                   /\ nat_params(q', store') = nat_params(q, store)
                   /\ std_params(q', store') = std_params(q, store)
                   /\ UNCHANGED <<communications, log, clients, store>>]_vars

\* a full run without an error: one round and one fit for each client in
\* turn, and the server has stopped
C28_Witness ==
    /\ server_class = "cl"
    /\ should_stop
    /\ iterations = NumClients
    /\ client_idx = 0
    /\ communications = NumClients
    /\ \A c \in Clients :
          can_update(c) /\ Len(clients[c].training_curves) = 1

\* C29: a step of either server in which fit is called on a client (the fit
\* starts, or raises at once) is taken only when that client's can_update()
\* is true, and the continual-learning server calls it on clients[client_idx];
\* a step of the asynchronous loop that stays in the loop has selected a
\* client whose can_update() is false and leaves every factor, q,
\* communications and the log unchanged, and so does a round of the
\* continual-learning server whose client is unavailable; while a fit runs
\* its client reports unavailable and no other fit starts.
C29_NoFitWhenUnavailable ==
    /\ [](pc = "fit" => ~clients[frame.client_index].can_update)
    /\ [][/\ ((pc # "fit" /\ pc' = "fit") \/ (pc # "fit" /\ tick_ret' = "raised"))
             => /\ clients[frame'.client_index].can_update
                /\ ~clients'[frame'.client_index].can_update
                /\ server_class = "cl" => frame'.client_index = client_idx
          /\ (pc = "fit" /\ pc' = "fit")
             => frame'.client_index = frame.client_index
          /\ (pc = "loop" /\ pc' = "loop")
             => /\ ~clients[frame'.client_index].can_update
                /\ UNCHANGED <<q, communications, log, clients, store>>
          /\ (CLTick /\ ~clients[client_idx].can_update)
             => /\ pc' = "idle"
                /\ tick_ret' = "None"
                /\ nat_params(q', store') = nat_params(q, store)
                /\ UNCHANGED <<communications, clients, store>>]_vars

\* the asynchronous loop selected a client that cannot update and skipped it
\* while another client could have been fitted
C29_Witness ==
    /\ server_class = "async"
    /\ pc = "loop"
    /\ frame.i = 1
    /\ round_fits = <<>>
    /\ ~clients[frame.client_index].can_update
    /\ \E c \in Clients : clients[c].can_update

\* the sum of the first n entries of a sequence of numbers
RECURSIVE SumTo(_, _)
SumTo(seq, n) == IF n = 0 THEN 0 ELSE SumTo(seq, n - 1) + seq[n]

\* the server was constructed, or the last tick() called has returned
TickCompleted == pc = "idle" /\ tick_ret # "raised"

\* C30: after construction and after every tick() that returned, log['q'] and
\* log['communications'] have communications + 1 entries and
\* log['communications'] is 0, 1, ..., communications; for the asynchronous
\* server log['clients_updated'] has iterations entries, each between 0 and
\* len(clients), and they sum to communications.
C30_LogBookkeeping ==
    TickCompleted
    => /\ Len(log.q) = communications + 1
       /\ Len(log.communications) = communications + 1
       /\ \A k \in DOMAIN log.communications : log.communications[k] = k - 1
       /\ server_class = "async"
          => /\ Len(log.clients_updated) = iterations
             /\ \A k \in DOMAIN log.clients_updated :
                   log.clients_updated[k] \in 0..NumClients
             /\ SumTo(log.clients_updated, Len(log.clients_updated))
                   = communications

\* what is left of C30 when a tick() was aborted after an update: the
\* lengths agree, and the entries of log['clients_updated'] sum to at most
\* communications
C30_LogBookkeepingAfterAbort ==
    TickCompleted
    => /\ Len(log.q) = communications + 1
       /\ Len(log.communications) = communications + 1
       /\ \A k \in DOMAIN log.communications : log.communications[k] = k - 1
       /\ server_class = "async"
          => /\ Len(log.clients_updated) = iterations
             /\ \A k \in DOMAIN log.clients_updated :
                   log.clients_updated[k] \in 0..NumClients
             /\ SumTo(log.clients_updated, Len(log.clients_updated))
                   <= communications

=============================================================================
